---- MODULE Spec2Model ----
(***************************************************************************)
(* A model of pl (src/main.rs): a terminal project launcher.  App::run     *)
(* loads the configuration, discovers the projects, then loops             *)
(* draw -> read one event -> dispatch until the exit flag is set, and      *)
(* finally hands the selected project to the editor command.               *)
(*                                                                         *)
(* Strings and paths are sequences of tokens: "~" and "/" are the          *)
(* characters themselves, every other token is a run of characters of a    *)
(* name (one character each in the names that the filter looks into).      *)
(* Option values are sequences of length 0 (None) or 1 (Some).             *)
(***************************************************************************)
EXTENDS Integers, Sequences, FiniteSets, TLC

VARIABLES
    env,                \* the world outside the process: config file, home, directories
    pc,                 \* position of App::run
    user_config,        \* App.user_config
    projects,           \* App.projects
    filtered_projects,  \* App.filtered_projects
    selected,           \* App.state.selected (ListState), an Option<usize>
    input_value,        \* App.input.input_area value
    input_cursor,       \* App.input.input_area cursor
    input_mode,         \* App.input.input_mode
    pending_open,       \* App.pending_open
    exit,               \* App.exit
    screen,             \* what the last draw rendered: highlighted row and README pane
    launched,           \* the external commands spawned so far
    result,             \* what App::run (or the function under check) returned, if it has
    last                \* the step just taken: the event dispatched and the handler run

vars == <<env, pc, user_config, projects, filtered_projects, selected, input_value,
          input_cursor, input_mode, pending_open, exit, screen, launched, result,
          last>>

-----------------------------------------------------------------------------
(* Bounds of the model *)

\* The query buffer holds at most this many characters.
MaxQueryLen == 2

\* The functions checked on their own take project lists of at most this length
MaxProjects == 3

\* and directory strings of at most this many tokens.
MaxDirLen == 3

\* usize is modelled UsizeBits wide.
UsizeBits == 8

UsizeMax == 2^UsizeBits - 1

-----------------------------------------------------------------------------
(* Option *)

None == <<>>

Some(x) == <<x>>

IsSome(o) == Len(o) = 1

Unwrap(o) == o[1]

-----------------------------------------------------------------------------
(* Strings *)

RECURSIVE Concat(_)
Concat(ss) == IF ss = <<>> THEN <<>> ELSE Head(ss) \o Concat(Tail(ss))

\* str::to_lowercase on the characters of the model's alphabet
LowerChar(c) ==
    CASE c = "A" -> "a"
      [] c = "B" -> "b"
      [] c = "G" -> "g"
      [] OTHER -> c

ToLowercase(s) == [i \in 1..Len(s) |-> LowerChar(s[i])]

\* OsStr::to_string_lossy: a unit that is not valid Unicode becomes U+FFFD
ToStringLossy(s) == [i \in 1..Len(s) |-> IF s[i] = "\\xff" THEN "\\ufffd" ELSE s[i]]

\* str::contains: needle occurs in hay as a contiguous substring
Contains(hay, needle) ==
    \E k \in 0..(Len(hay) - Len(needle)) :
        \A i \in 1..Len(needle) : hay[k + i] = needle[i]

\* str::strip_prefix
StripPrefix(s, prefix) ==
    IF Len(s) >= Len(prefix) /\ SubSeq(s, 1, Len(prefix)) = prefix
    THEN Some(SubSeq(s, Len(prefix) + 1, Len(s)))
    ELSE None

\* Path::join: an absolute argument replaces the base
PathJoin(base, rel) ==
    IF rel # <<>> /\ rel[1] = "/" THEN rel
    ELSE IF base = <<>> \/ base[Len(base)] = "/" THEN base \o rel
    ELSE base \o <<"/">> \o rel

-----------------------------------------------------------------------------
(* The environment: configuration file, home directory, file system *)

Home == <<"/", "h">>

ProjectsDir == <<"/", "h", "/", "Projects">>

RootOne == <<"/", "r">>

\* One directory entry as read_dir yields it: ok = FALSE is an entry that fails to
\* enumerate; git and readme say whether <entry>/.git and <entry>/README.md exist.
Entry(name, git, readme) == [ok |-> TRUE, name |-> name, git |-> git, readme |-> readme]

BadEntry == [ok |-> FALSE, name |-> <<>>, git |-> FALSE, readme |-> FALSE]

\* UserConfig::default
DefaultConfig == [project_dirs |-> <<<<"~", "/", "Projects">>>>, editor_command |-> "nvim"]

\* The state of <config_dir>/pl/config.toml.  A parseable file gives each key as an
\* Option.
FileMissing == [kind |-> "missing"]

FileMalformed == [kind |-> "malformed"]

FileUnreadable == [kind |-> "unreadable"]

NoConfigDir == [kind |-> "no_config_dir"]

FileParsed(dirs, cmd) == [kind |-> "parsed", project_dirs |-> dirs, editor_command |-> cmd]

\* The directories that exist and can be read, with their listings in the order
\* the operating system enumerates them.
DirsFull ==
    (ProjectsDir :> << Entry(<<"a">>, TRUE, TRUE),
                       Entry(<<"B", "a">>, TRUE, FALSE),
                       Entry(<<"a", "b">>, FALSE, TRUE),
                       BadEntry,
                       Entry(<<"b">>, TRUE, FALSE) >>)
    @@ (RootOne :> << Entry(<<"a", "b">>, TRUE, FALSE),
                      Entry(<<"q">>, FALSE, FALSE) >>)
    @@ (Home :> << Entry(<<"Projects">>, FALSE, FALSE),
                   Entry(<<"j", "\\xff">>, TRUE, TRUE) >>)

World(file, home, dirs) == [config_file |-> file, home |-> home, dirs |-> dirs]

Worlds ==
    { World(FileMissing, Some(Home), DirsFull),
      World(FileParsed(Some(<< RootOne, <<"/", "n">>, <<"~">> >>), Some("code")),
            Some(Home), DirsFull),
      World(FileParsed(Some(<< <<"~", "/", "Projects">>, RootOne >>), None), Some(Home), DirsFull),
      World(FileParsed(Some(<< RootOne >>), None), None, DirsFull),
      World(FileParsed(Some(<<>>), None), Some(Home), DirsFull),
      World(FileParsed(None, Some("code")), None, DirsFull),
      World(FileMalformed, Some(Home), DirsFull),
      World(FileUnreadable, Some(Home), DirsFull),
      World(NoConfigDir, Some(Home), DirsFull) }

-----------------------------------------------------------------------------
(* Configuration *)

\* <config_dir>/pl/config.toml, as config_path.display() prints it
ConfigPath == "<config_dir>/pl/config.toml"

\* io::Result: Ok, or Err with the error's kind and the text of its message
Ok == [ok |-> TRUE]

Err(kind, message) == [ok |-> FALSE, kind |-> kind, message |-> message]

load_user_config_SwallowsParseError(w) ==
    CASE w.config_file.kind = "no_config_dir" ->
            [ok |-> FALSE, err |-> Err("NotFound", <<"config directory not found">>)]
      [] w.config_file.kind = "parsed" ->
            [ok |-> TRUE,
             config |-> [project_dirs |->
                            IF IsSome(w.config_file.project_dirs)
                            THEN Unwrap(w.config_file.project_dirs)
                            ELSE DefaultConfig.project_dirs,
                         editor_command |->
                            IF IsSome(w.config_file.editor_command)
                            THEN Unwrap(w.config_file.editor_command)
                            ELSE DefaultConfig.editor_command]]
      [] w.config_file.kind \in {"malformed", "missing"} ->
            [ok |-> TRUE, config |-> DefaultConfig]
      [] OTHER ->
            [ok |-> FALSE, err |-> Err("Other", <<"io error">>)]

\* load_user_config: Ok(config) or Err(error)
load_user_config(w) ==
    CASE w.config_file.kind = "no_config_dir" ->
            [ok |-> FALSE, err |-> Err("NotFound", <<"config directory not found">>)]
      [] w.config_file.kind = "parsed" ->
            [ok |-> TRUE,
             config |-> [project_dirs |->
                            IF IsSome(w.config_file.project_dirs)
                            THEN Unwrap(w.config_file.project_dirs)
                            ELSE DefaultConfig.project_dirs,
                         editor_command |->
                            IF IsSome(w.config_file.editor_command)
                            THEN Unwrap(w.config_file.editor_command)
                            ELSE DefaultConfig.editor_command]]
      [] w.config_file.kind = "malformed" ->
            [ok |-> FALSE,
             err |-> Err("InvalidData", <<"invalid config at ", ConfigPath, ": ", "parse error">>)]
      [] w.config_file.kind = "missing" ->
            [ok |-> TRUE, config |-> DefaultConfig]
      [] OTHER ->
            [ok |-> FALSE, err |-> Err("Other", <<"io error">>)]

-----------------------------------------------------------------------------
(* Discovery *)

\* home_dir: dirs::home_dir().expect(..) panics when there is no home directory
home_dir(w) == w.home

parse_dir_AnyTilde(w, proj_dir) ==
    IF proj_dir # <<>> /\ proj_dir[1] = "~"
    THEN IF IsSome(home_dir(w))
         THEN Some(PathJoin(Unwrap(home_dir(w)), SubSeq(proj_dir, 2, Len(proj_dir))))
         ELSE None
    ELSE Some(proj_dir)

\* parse_dir: Some(path), or None when home_dir panics
parse_dir(w, proj_dir) ==
    IF proj_dir = <<"~">> THEN home_dir(w)
    ELSE IF IsSome(StripPrefix(proj_dir, <<"~", "/">>))
         THEN IF IsSome(home_dir(w))
              THEN Some(PathJoin(Unwrap(home_dir(w)), Unwrap(StripPrefix(proj_dir, <<"~", "/">>))))
              ELSE None
         ELSE Some(proj_dir)

\* fs::read_dir(dir).ok().into_iter().flat_map(|rd| rd.filter_map(Result::ok))
ReadDirEntries(w, dir) ==
    IF dir \in DOMAIN w.dirs
    THEN SelectSeq([i \in 1..Len(w.dirs[dir]) |->
                        [dir |-> dir, entry |-> w.dirs[dir][i]]],
                   LAMBDA e : e.entry.ok)
    ELSE <<>>

HasGit_Any(e) == TRUE

\* entry.path().join(".git").exists()
HasGit(e) == e.entry.git

MakeProject(e) ==
    [project_name |-> e.entry.name, project_path |-> PathJoin(e.dir, e.entry.name)]

\* get_all_projects, given that every parse_dir returned
get_all_projects(w, proj_dirs) ==
    LET dirs == [i \in 1..Len(proj_dirs) |-> Unwrap(parse_dir(w, proj_dirs[i]))]
        found == Concat([i \in 1..Len(dirs) |-> ReadDirEntries(w, dirs[i])])
        kept == SelectSeq(found, HasGit)
    IN  [i \in 1..Len(kept) |-> MakeProject(kept[i])]

\* whether some parse_dir of the configured roots panics
DiscoveryPanics(w, proj_dirs) ==
    \E i \in 1..Len(proj_dirs) : ~IsSome(parse_dir(w, proj_dirs[i]))

\* std::fs::read_to_string(<path>/README.md) succeeds
HasReadme(w, path) ==
    \E d \in DOMAIN w.dirs : \E i \in 1..Len(w.dirs[d]) :
        /\ w.dirs[d][i].ok
        /\ PathJoin(d, w.dirs[d][i].name) = path
        /\ w.dirs[d][i].readme

-----------------------------------------------------------------------------
(* Startup *)

NoScreen == [drawn |-> FALSE, list_area_empty |-> FALSE, highlighted |-> None,
             readme |-> "nothing"]

\* A step: the handler run, the event dispatched (if any), and the selection and
\* the mode before it
Step(op, event) == [op |-> op, event |-> event, before |-> selected, mode |-> input_mode]

NoStep == [op |-> "none", event |-> None, before |-> None, mode |-> "Normal"]

\* App::default()
Init ==
    /\ env \in Worlds
    /\ pc = "load_config"
    /\ user_config = DefaultConfig
    /\ projects = <<>>
    /\ filtered_projects = <<>>
    /\ selected = None
    /\ input_value = <<>>
    /\ input_cursor = 0
    /\ input_mode = "Normal"
    /\ pending_open = FALSE
    /\ exit = FALSE
    /\ screen = NoScreen
    /\ launched = <<>>
    /\ result = None
    /\ last = NoStep

\* App::run, line 89: self.user_config = load_user_config()?
LoadConfig ==
    /\ pc = "load_config"
    /\ LET r == load_user_config(env)
       IN  IF r.ok
           THEN /\ user_config' = r.config
                /\ pc' = "discover"
                /\ result' = result
                /\ last' = Step("load_config", None)
           ELSE /\ user_config' = user_config
                /\ pc' = "failed"
                /\ result' = Some(r.err)
                /\ last' = Step("load_config_failed", None)
    /\ UNCHANGED <<env, projects, filtered_projects, selected, input_value, input_cursor,
                   input_mode, pending_open, exit, screen, launched>>

\* App::run, lines 91-98: mode, discovery, the filtered copy, select_first
Discover ==
    /\ pc = "discover"
    /\ input_mode' = "Editing"
    /\ IF DiscoveryPanics(env, user_config.project_dirs)
       THEN /\ pc' = "panicked"
            /\ UNCHANGED <<projects, filtered_projects, selected>>
            /\ last' = Step("discover_panicked", None)
       ELSE /\ projects' = get_all_projects(env, user_config.project_dirs)
            /\ filtered_projects' = projects'
            /\ selected' = Some(0)
            /\ pc' = "draw"
            /\ last' = Step("discover", None)
    /\ UNCHANGED <<env, user_config, input_value, input_cursor, pending_open, exit,
                   screen, launched, result>>

-----------------------------------------------------------------------------
(* ListState (ratatui), as the calls of main.rs use it *)

SaturatingAdd(i) == IF i >= UsizeMax THEN UsizeMax ELSE i + 1

SaturatingSub(i) == IF i = 0 THEN 0 ELSE i - 1

\* ListState::select_first
select_first(sel) == Some(0)

\* ListState::select_last
select_last(sel) == Some(UsizeMax)

select_next_Stuck(sel) == Some(IF IsSome(sel) THEN Unwrap(sel) ELSE 0)

\* ListState::select_next
select_next(sel) == Some(IF IsSome(sel) THEN SaturatingAdd(Unwrap(sel)) ELSE 0)

select_previous_Wrapping(sel) ==
    Some(IF IsSome(sel) /\ Unwrap(sel) > 0 THEN Unwrap(sel) - 1 ELSE UsizeMax)

\* ListState::select_previous
select_previous(sel) == Some(IF IsSome(sel) THEN SaturatingSub(Unwrap(sel)) ELSE UsizeMax)

ListRenderSelection_DeselectsPastEnd(sel, n_items, list_area_empty) ==
    IF list_area_empty THEN sel
    ELSE IF n_items = 0 THEN None
    ELSE IF IsSome(sel) /\ Unwrap(sel) >= n_items THEN None
    ELSE sel

\* StatefulWidget::render of List: what it does to the selection.  With an empty
\* inner area it returns before looking at the state; with no items it deselects;
\* an index past the end is set to the last item.
ListRenderSelection(sel, n_items, list_area_empty) ==
    IF list_area_empty THEN sel
    ELSE IF n_items = 0 THEN None
    ELSE IF IsSome(sel) /\ Unwrap(sel) >= n_items THEN Some(n_items - 1)
    ELSE sel

-----------------------------------------------------------------------------
(* Events *)

Key(code, ch, mods) == [type |-> "key", kind |-> "press", code |-> code, ch |-> ch, mods |-> mods]

Char(c) == Key("Char", c, "NONE")

Ctrl(c) == Key("Char", c, "CONTROL")

Plain(code) == Key(code, "", "NONE")

\* The characters the keyboard of the model can type
TypedChars == {"a", "B", "j", "k", "q", "G", "/"}

PressEvents ==
    {Char(c) : c \in TypedChars}
    \cup {Ctrl("n"), Ctrl("p"), Ctrl("u")}
    \cup {Plain(code) : code \in {"Esc", "Enter", "Down", "Up", "Backspace", "Delete",
                                  "Left", "Right", "Home", "End"}}
    \cup {Key("Enter", "", "SHIFT"), Key("Down", "", "CONTROL")}

OtherEvents ==
    {[type |-> "resize", kind |-> "", code |-> "", ch |-> "", mods |-> ""],
     [type |-> "key", kind |-> "release", code |-> "Char", ch |-> "q", mods |-> "NONE"],
     [type |-> "key", kind |-> "release", code |-> "Enter", ch |-> "", mods |-> "NONE"]}

Events == PressEvents \cup OtherEvents

-----------------------------------------------------------------------------
(* The text buffer (tui_input), as handle_event drives it *)

\* tui_input::backend::crossterm::to_input_request
to_input_request(key) ==
    CASE key.code = "Backspace" /\ key.mods = "NONE" -> "DeletePrevChar"
      [] key.code = "Delete" /\ key.mods = "NONE" -> "DeleteNextChar"
      [] key.code = "Left" /\ key.mods = "NONE" -> "GoToPrevChar"
      [] key.code = "Right" /\ key.mods = "NONE" -> "GoToNextChar"
      [] key.code = "Char" /\ key.ch = "u" /\ key.mods = "CONTROL" -> "DeleteLine"
      [] key.code = "Home" /\ key.mods = "NONE" -> "GoToStart"
      [] key.code = "End" /\ key.mods = "NONE" -> "GoToEnd"
      [] key.code = "Char" /\ key.mods \in {"NONE", "SHIFT"} -> "InsertChar"
      [] OTHER -> "None"

RemoveAt(s, i) == SubSeq(s, 1, i - 1) \o SubSeq(s, i + 1, Len(s))

InsertAt(s, i, c) == SubSeq(s, 1, i) \o <<c>> \o SubSeq(s, i + 1, Len(s))

\* Input::handle: the buffer after the request
InputHandle(value, cursor, req, ch) ==
    CASE req = "InsertChar" -> [value |-> InsertAt(value, cursor, ch), cursor |-> cursor + 1]
      [] req = "DeletePrevChar" ->
            IF cursor = 0 THEN [value |-> value, cursor |-> cursor]
            ELSE [value |-> RemoveAt(value, cursor), cursor |-> cursor - 1]
      [] req = "DeleteNextChar" ->
            IF cursor = Len(value) THEN [value |-> value, cursor |-> cursor]
            ELSE [value |-> RemoveAt(value, cursor + 1), cursor |-> cursor]
      [] req = "GoToPrevChar" ->
            [value |-> value, cursor |-> IF cursor = 0 THEN 0 ELSE cursor - 1]
      [] req = "GoToNextChar" ->
            [value |-> value, cursor |-> IF cursor = Len(value) THEN cursor ELSE cursor + 1]
      [] req = "DeleteLine" -> [value |-> <<>>, cursor |-> 0]
      [] req = "GoToStart" -> [value |-> value, cursor |-> 0]
      [] req = "GoToEnd" -> [value |-> value, cursor |-> Len(value)]
      [] OTHER -> [value |-> value, cursor |-> cursor]

-----------------------------------------------------------------------------
(* Filtering *)

\* the closure of filter_results, line 168
NameMatches(p, q) == Contains(ToLowercase(ToStringLossy(p.project_name)), q)

FilterProjects_Reversed(all, value) ==
    LET kept == SelectSeq(all, LAMBDA p : NameMatches(p, ToLowercase(value)))
    IN  [i \in 1..Len(kept) |-> kept[Len(kept) + 1 - i]]

FilterProjects_CaseSensitive(all, value) ==
    IF value = <<>> THEN all
    ELSE SelectSeq(all, LAMBDA p : NameMatches(p, value))

\* filter_results, lines 160-171: the new filtered list
FilterProjects(all, value) ==
    LET q == ToLowercase(value)
    IN  IF q = <<>> THEN all
        ELSE SelectSeq(all, LAMBDA p : NameMatches(p, q))

FilterSelection_Keep(filtered, sel) ==
    IF filtered = <<>> THEN None ELSE IF IsSome(sel) THEN sel ELSE Some(0)

\* filter_results, lines 173-177: the new selection
FilterSelection(filtered, sel) ==
    IF filtered = <<>> THEN None ELSE select_first(sel)

-----------------------------------------------------------------------------
(* Key dispatch *)

NormalArm_QuitOpens(key) ==
    CASE key.code = "Char" /\ key.ch = "q" -> "open_project"
      [] key.code = "Esc" -> "exit"
      [] key.code = "Char" /\ key.ch = "j" -> "select_next"
      [] key.code = "Down" -> "select_next"
      [] key.code = "Char" /\ key.ch = "k" -> "select_previous"
      [] key.code = "Up" -> "select_previous"
      [] key.code = "Char" /\ key.ch = "G" -> "select_last"
      [] key.code = "Char" /\ key.ch = "/" -> "start_editing"
      [] key.code = "Enter" -> "open_project"
      [] OTHER -> "ignored"

\* handle_key_event, lines 133-142: the arm of Normal mode
NormalArm(key) ==
    CASE key.code = "Char" /\ key.ch = "q" -> "exit"
      [] key.code = "Esc" -> "exit"
      [] key.code = "Char" /\ key.ch = "j" -> "select_next"
      [] key.code = "Down" -> "select_next"
      [] key.code = "Char" /\ key.ch = "k" -> "select_previous"
      [] key.code = "Up" -> "select_previous"
      [] key.code = "Char" /\ key.ch = "G" -> "select_last"
      [] key.code = "Char" /\ key.ch = "/" -> "start_editing"
      [] key.code = "Enter" -> "open_project"
      [] OTHER -> "ignored"

EditingArm_DownAnyModifier(key) ==
    CASE key.code = "Esc" /\ key.mods = "NONE" -> "stop_editing"
      [] key.code = "Enter" /\ key.mods = "NONE" -> "stop_editing"
      [] key.code = "Char" /\ key.ch = "n" /\ key.mods = "CONTROL" -> "select_next"
      [] key.code = "Down" -> "select_next"
      [] key.code = "Char" /\ key.ch = "p" /\ key.mods = "CONTROL" -> "select_previous"
      [] key.code = "Up" /\ key.mods = "NONE" -> "select_previous"
      [] OTHER -> "filter_results"

EditingArm_DownUnmatched(key) ==
    CASE key.code = "Esc" /\ key.mods = "NONE" -> "stop_editing"
      [] key.code = "Enter" /\ key.mods = "NONE" -> "stop_editing"
      [] key.code = "Char" /\ key.ch = "n" /\ key.mods = "CONTROL" -> "select_next"
      [] key.code = "Char" /\ key.ch = "p" /\ key.mods = "CONTROL" -> "select_previous"
      [] key.code = "Up" /\ key.mods = "NONE" -> "select_previous"
      [] OTHER -> "filter_results"

EditingArm_EnterAnyModifier(key) ==
    CASE key.code = "Esc" /\ key.mods = "NONE" -> "stop_editing"
      [] key.code = "Enter" -> "stop_editing"
      [] key.code = "Char" /\ key.ch = "n" /\ key.mods = "CONTROL" -> "select_next"
      [] key.code = "Down" /\ key.mods = "NONE" -> "select_next"
      [] key.code = "Char" /\ key.ch = "p" /\ key.mods = "CONTROL" -> "select_previous"
      [] key.code = "Up" /\ key.mods = "NONE" -> "select_previous"
      [] OTHER -> "filter_results"

EditingArm_EnterOpens(key) ==
    CASE key.code = "Esc" /\ key.mods = "NONE" -> "stop_editing"
      [] key.code = "Enter" -> "open_project"
      [] key.code = "Char" /\ key.ch = "n" /\ key.mods = "CONTROL" -> "select_next"
      [] key.code = "Down" /\ key.mods = "NONE" -> "select_next"
      [] key.code = "Char" /\ key.ch = "p" /\ key.mods = "CONTROL" -> "select_previous"
      [] key.code = "Up" /\ key.mods = "NONE" -> "select_previous"
      [] OTHER -> "filter_results"

\* handle_key_event, lines 143-155: the arm of Editing mode
EditingArm(key) ==
    CASE key.code = "Esc" /\ key.mods = "NONE" -> "stop_editing"
      [] key.code = "Enter" /\ key.mods = "NONE" -> "stop_editing"
      [] key.code = "Char" /\ key.ch = "n" /\ key.mods = "CONTROL" -> "select_next"
      [] key.code = "Down" /\ key.mods = "NONE" -> "select_next"
      [] key.code = "Char" /\ key.ch = "p" /\ key.mods = "CONTROL" -> "select_previous"
      [] key.code = "Up" /\ key.mods = "NONE" -> "select_previous"
      [] OTHER -> "filter_results"

Arm_AnyKeyKind(mode, ev) ==
    IF ev.type = "key"
    THEN IF mode = "Normal" THEN NormalArm(ev) ELSE EditingArm(ev)
    ELSE "not_a_press"

\* handle_events, lines 122-127, and the match of handle_key_event on the mode
Arm(mode, ev) ==
    IF ev.type = "key" /\ ev.kind = "press"
    THEN IF mode = "Normal" THEN NormalArm(ev) ELSE EditingArm(ev)
    ELSE "not_a_press"

\* The model keeps the query within MaxQueryLen characters.
WithinQueryBound(mode, ev, value) ==
    (Arm(mode, ev) = "filter_results" /\ to_input_request(ev) = "InsertChar")
        => Len(value) < MaxQueryLen

AfterEvent_KeepsLooping(exit_flag) == "draw"

\* the loop condition of App::run, line 100, after handle_events returned
AfterEvent(exit_flag) == IF exit_flag THEN "handoff" ELSE "draw"

\* handle_events with handle_key_event and the handler it calls
HandleEvents(ev) ==
    /\ pc = "read"
    /\ WithinQueryBound(input_mode, ev, input_value)
    /\ LET arm == Arm(input_mode, ev)
           buf == InputHandle(input_value, input_cursor, to_input_request(ev), ev.ch)
       IN  /\ last' = Step(arm, Some(ev))
           /\ exit' = (exit \/ arm \in {"exit", "open_project"})
           /\ pending_open' = (pending_open \/ arm = "open_project")
           /\ input_mode' = CASE arm = "start_editing" -> "Editing"
                              [] arm = "stop_editing" -> "Normal"
                              [] OTHER -> input_mode
           /\ input_value' = IF arm = "filter_results" THEN buf.value ELSE input_value
           /\ input_cursor' = IF arm = "filter_results" THEN buf.cursor ELSE input_cursor
           /\ filtered_projects' = IF arm = "filter_results"
                                   THEN FilterProjects(projects, input_value')
                                   ELSE filtered_projects
           /\ selected' = CASE arm = "select_next" -> select_next(selected)
                            [] arm = "select_previous" -> select_previous(selected)
                            [] arm = "select_last" -> select_last(selected)
                            [] arm = "filter_results" ->
                                    FilterSelection(filtered_projects', selected)
                            [] OTHER -> selected
           /\ pc' = AfterEvent(exit')
    /\ UNCHANGED <<env, user_config, projects, screen, launched, result>>

-----------------------------------------------------------------------------
(* Drawing *)

render_readme_Tolerant(w, filtered, sel) ==
    IF ~IsSome(sel) THEN Some("nothing")
    ELSE IF Unwrap(sel) >= Len(filtered) THEN Some("No README")
    ELSE IF HasReadme(w, filtered[Unwrap(sel) + 1].project_path) THEN Some("contents")
    ELSE Some("No README")

\* render_readme: what the README pane shows; None when the lookup panics
render_readme(w, filtered, sel) ==
    IF ~IsSome(sel) THEN Some("nothing")
    ELSE IF Unwrap(sel) >= Len(filtered) THEN None
    ELSE IF HasReadme(w, filtered[Unwrap(sel) + 1].project_path) THEN Some("contents")
    ELSE Some("No README")

\* terminal.draw: render_input, render_project_list, render_readme
Draw(list_area_empty) ==
    /\ pc = "draw"
    /\ LET sel == ListRenderSelection(selected, Len(filtered_projects), list_area_empty)
           pane == render_readme(env, filtered_projects, sel)
       IN  /\ selected' = sel
           /\ IF IsSome(pane)
              THEN /\ screen' = [drawn |-> TRUE,
                                 list_area_empty |-> list_area_empty,
                                 highlighted |-> IF list_area_empty THEN None ELSE sel,
                                 readme |-> Unwrap(pane)]
                   /\ pc' = "read"
              ELSE /\ screen' = screen
                   /\ pc' = "panicked"
           /\ last' = Step("draw", None)
    /\ UNCHANGED <<env, user_config, projects, filtered_projects, input_value,
                   input_cursor, input_mode, pending_open, exit, launched, result>>

\* terminal.draw or event::read returns an error, which run propagates
IoError ==
    /\ pc \in {"draw", "read"}
    /\ pc' = "failed"
    /\ result' = Some(Err("Other", <<"io error">>))
    /\ last' = Step("io_error", None)
    /\ UNCHANGED <<env, user_config, projects, filtered_projects, selected, input_value,
                   input_cursor, input_mode, pending_open, exit, screen, launched>>

-----------------------------------------------------------------------------
(* Hand-off *)

\* App::run, lines 105-112: the project handed to the editor; None when the lookup
\* panics
HandOffProject(all, sel) ==
    IF Unwrap(sel) < Len(all) THEN Some(all[Unwrap(sel) + 1]) ELSE None

HandOff ==
    /\ pc = "handoff"
    /\ IF IsSome(selected) /\ pending_open
       THEN LET p == HandOffProject(projects, selected)
            IN  IF IsSome(p)
                THEN /\ launched' = Append(launched,
                                           [command |-> user_config.editor_command,
                                            args |-> <<Unwrap(p).project_path>>])
                     /\ pc' = "done"
                     /\ result' = Some(Ok)
                     /\ last' = Step("launch", None)
                ELSE /\ launched' = launched
                     /\ pc' = "panicked"
                     /\ result' = result
                     /\ last' = Step("handoff_panicked", None)
       ELSE /\ launched' = launched
            /\ pc' = "done"
            /\ result' = Some(Ok)
            /\ last' = Step("no_launch", None)
    /\ UNCHANGED <<env, user_config, projects, filtered_projects, selected, input_value,
                   input_cursor, input_mode, pending_open, exit, screen>>

-----------------------------------------------------------------------------

Next ==
    \/ LoadConfig
    \/ Discover
    \/ \E b \in BOOLEAN : Draw(b)
    \/ \E ev \in Events : HandleEvents(ev)
    \/ IoError
    \/ HandOff

Spec == Init /\ [][Next]_vars

-----------------------------------------------------------------------------
(* The functions of main.rs on their own, over bounded inputs *)

\* the sequences over S of length at most n
SeqsUpTo(S, n) == UNION { [1..k -> S] : k \in 0..n }

ProjectNames == { <<"a">>, <<"B", "a">>, <<"a", "b">>, <<"b">>, <<"j", "\\xff">> }

ProjectOf(name) == [project_name |-> name, project_path |-> PathJoin(RootOne, name)]

ProjectLists ==
    { [i \in 1..Len(names) |-> ProjectOf(names[i])] : names \in SeqsUpTo(ProjectNames, MaxProjects) }

Queries == SeqsUpTo({"a", "B", "b"}, MaxQueryLen)

DirStrings == SeqsUpTo({"~", "/", "x"}, MaxDirLen)

InitPure ==
    /\ env \in { World(FileMissing, home, DirsFull) : home \in {None, Some(Home)} }
    /\ \/ /\ pc = "filter_once"
          /\ env.home = None
          /\ projects \in ProjectLists
          /\ input_value \in Queries
          /\ user_config = DefaultConfig
       \/ /\ pc = "parse_dir"
          /\ projects = <<>>
          /\ input_value = <<>>
          /\ user_config \in { [project_dirs |-> <<d>>, editor_command |-> "nvim"] :
                                  d \in DirStrings }
    /\ filtered_projects = <<>>
    /\ selected = None
    /\ input_cursor = Len(input_value)
    /\ input_mode = "Editing"
    /\ pending_open = FALSE
    /\ exit = FALSE
    /\ screen = NoScreen
    /\ launched = <<>>
    /\ result = None
    /\ last = NoStep

\* filter_results on the full list
FilterOnce ==
    /\ pc = "filter_once"
    /\ filtered_projects' = FilterProjects(projects, input_value)
    /\ selected' = FilterSelection(filtered_projects', selected)
    /\ pc' = "filter_twice"
    /\ last' = Step("filter_results", None)
    /\ UNCHANGED <<env, user_config, projects, input_value, input_cursor, input_mode,
                   pending_open, exit, screen, launched, result>>

\* the filter of filter_results again, on the list it produced
FilterTwice ==
    /\ pc = "filter_twice"
    /\ filtered_projects' = FilterProjects(filtered_projects, input_value)
    /\ selected' = FilterSelection(filtered_projects', selected)
    /\ pc' = "filtered"
    /\ last' = Step("filter_results", None)
    /\ UNCHANGED <<env, user_config, projects, input_value, input_cursor, input_mode,
                   pending_open, exit, screen, launched, result>>

\* parse_dir on the configured directory; a panic leaves no result
ParseDir ==
    /\ pc = "parse_dir"
    /\ IF IsSome(parse_dir(env, user_config.project_dirs[1]))
       THEN /\ result' = parse_dir(env, user_config.project_dirs[1])
            /\ pc' = "parsed"
       ELSE /\ result' = None
            /\ pc' = "panicked"
    /\ last' = Step("parse_dir", None)
    /\ UNCHANGED <<env, user_config, projects, filtered_projects, selected, input_value,
                   input_cursor, input_mode, pending_open, exit, screen, launched>>

NextPure == FilterOnce \/ FilterTwice \/ ParseDir

PureSpec == InitPure /\ [][NextPure]_vars

-----------------------------------------------------------------------------
(* Properties *)

\* the step just taken dispatched a key press
KeyPressStep ==
    /\ IsSome(last.event)
    /\ Unwrap(last.event).type = "key"
    /\ Unwrap(last.event).kind = "press"

LastKey == Unwrap(last.event)

\* the number of rows of the list
NRows == Len(filtered_projects)

\* the selection invariant of the data model
SelectionValid ==
    IF filtered_projects = <<>>
    THEN selected = None
    ELSE IsSome(selected) /\ Unwrap(selected) < NRows

\* the keys of the operation next, per mode
IsNextKey(mode, key) ==
    IF mode = "Normal"
    THEN (key.code = "Char" /\ key.ch = "j") \/ key.code = "Down"
    ELSE \/ key.code = "Char" /\ key.ch = "n" /\ key.mods = "CONTROL"
         \/ key.code = "Down" /\ key.mods = "NONE"

\* the keys of the operation previous, per mode
IsPreviousKey(mode, key) ==
    IF mode = "Normal"
    THEN (key.code = "Char" /\ key.ch = "k") \/ key.code = "Up"
    ELSE \/ key.code = "Char" /\ key.ch = "p" /\ key.mods = "CONTROL"
         \/ key.code = "Up" /\ key.mods = "NONE"

\* C1: when the loop exits on Enter in Navigation mode with selection Some(i), the
\* editor is invoked with exactly filtered_projects[i].project_path as its sole
\* argument.  (The code looks the index up in projects: violated.)
C1_EditorGetsHighlightedPath ==
    last.op = "launch" =>
        /\ Unwrap(selected) < NRows
        /\ launched = << [command |-> user_config.editor_command,
                          args |-> << filtered_projects[Unwrap(selected) + 1].project_path >>] >>

\* C2 as stated: after every dispatched key event the selection is Some(i) with
\* i < len when the filtered list is non-empty, and None when it is empty.
\* (A navigation key leaves it out of range until the next draw: violated.)
C2_SelectionValidAfterEveryKeyEvent == KeyPressStep => SelectionValid

\* C2, amended: after every draw that renders the list into a non-empty area, and
\* after every filter recomputation, the selection is Some(i) with i < len when the
\* filtered list is non-empty, and None when it is empty.
C2_SelectionValidAfterDrawOrFilter ==
    (\/ last.op = "draw" /\ pc = "read" /\ ~screen.list_area_empty
     \/ last.op = "filter_results")
        => SelectionValid

\* a draw of a non-empty list area has just repaired a selection that a navigation
\* key left past the end
C2_Witness ==
    /\ last.op = "draw"
    /\ pc = "read"
    /\ ~screen.list_area_empty
    /\ NRows >= 2
    /\ IsSome(last.before)
    /\ Unwrap(last.before) >= NRows
    /\ SelectionValid

\* C3 as stated: next on a list of length n > 0 with selection Some(i) yields
\* Some((i + 1) mod n), wrapping from n-1 to 0.  (The code does not wrap: violated.)
C3_NextWraps ==
    (/\ KeyPressStep
     /\ IsNextKey(last.mode, LastKey)
     /\ IsSome(last.before)
     /\ NRows > 0
     /\ Unwrap(last.before) < NRows)
        => selected = Some((Unwrap(last.before) + 1) % NRows)

\* C3, amended: next with selection Some(i) yields Some(i + 1), saturating at the
\* largest usize and never wrapping; from the last index n-1 it yields Some(n),
\* which the next draw of a non-empty list area sets back to n-1.
C3_NextSaturates ==
    /\ (KeyPressStep /\ IsNextKey(last.mode, LastKey) /\ IsSome(last.before))
          => selected = Some(IF Unwrap(last.before) >= UsizeMax
                             THEN UsizeMax
                             ELSE Unwrap(last.before) + 1)
    /\ (/\ last.op = "draw"
        /\ pc = "read"
        /\ ~screen.list_area_empty
        /\ NRows > 0
        /\ IsSome(last.before)
        /\ Unwrap(last.before) >= NRows)
          => selected = Some(NRows - 1)

\* next has just acted on the last row of a list of at least two rows
C3_Witness ==
    /\ KeyPressStep
    /\ IsNextKey(last.mode, LastKey)
    /\ NRows >= 2
    /\ last.before = Some(NRows - 1)
    /\ selected = Some(NRows)

\* C4 as stated: previous on a list of length n > 0 with selection Some(i) yields
\* Some((i - 1 + n) mod n), wrapping from 0 to n-1.  (The code does not wrap:
\* violated.)
C4_PreviousWraps ==
    (/\ KeyPressStep
     /\ IsPreviousKey(last.mode, LastKey)
     /\ IsSome(last.before)
     /\ NRows > 0
     /\ Unwrap(last.before) < NRows)
        => selected = Some((Unwrap(last.before) - 1 + NRows) % NRows)

\* C4, amended: previous with selection Some(i) yields Some(i - 1) when i > 0 and
\* leaves Some(0) at Some(0); it never wraps to n-1.
C4_PreviousSaturates ==
    (KeyPressStep /\ IsPreviousKey(last.mode, LastKey) /\ IsSome(last.before))
        => selected = Some(IF Unwrap(last.before) = 0 THEN 0 ELSE Unwrap(last.before) - 1)

\* previous has just acted on the first row of a list of at least two rows
C4_Witness ==
    /\ KeyPressStep
    /\ IsPreviousKey(last.mode, LastKey)
    /\ NRows >= 2
    /\ last.before = Some(0)
    /\ selected = Some(0)

\* the indices of the projects whose lowercased name contains the lowercased query
MatchingIndices ==
    {i \in 1..Len(projects) :
        Contains(ToLowercase(ToStringLossy(projects[i].project_name)),
                 ToLowercase(input_value))}

\* the k-th smallest element of a set of numbers
KthOf(S, k) == CHOOSE i \in S : Cardinality({j \in S : j < i}) = k - 1

\* C5: in every reachable state filtered_projects is exactly the order-preserving
\* subsequence of projects whose lowercased name contains the lowercased query, and
\* with an empty query it equals projects.
C5_FilteredIsMatchingSubsequence ==
    LET matching == MatchingIndices
    IN  /\ Len(filtered_projects) = Cardinality(matching)
        /\ \A k \in 1..Len(filtered_projects) :
              filtered_projects[k] = projects[KthOf(matching, k)]
        /\ (input_value = <<>> => filtered_projects = projects)

\* a query with an upper-case letter has narrowed the list to some but not all
C5_Witness ==
    /\ last.op = "filter_results"
    /\ \E i \in 1..Len(input_value) : input_value[i] = "B"
    /\ Len(filtered_projects) >= 2
    /\ Len(filtered_projects) < Len(projects)

\* C6: every filter recomputation leaves the selection at Some(0) when the new
\* filtered list is non-empty and at None when it is empty, whatever it was before.
C6_FilterResetsSelection ==
    last.op = "filter_results" =>
        selected = IF filtered_projects = <<>> THEN None ELSE Some(0)

\* a filter recomputation has just moved the selection from a later row to the first
C6_Witness ==
    /\ last.op = "filter_results"
    /\ IsSome(last.before)
    /\ Unwrap(last.before) > 0
    /\ filtered_projects # <<>>
    /\ selected = Some(0)

\* the event that the step to the next state dispatches
IsEnterNoModifiers(ev) ==
    ev.type = "key" /\ ev.kind = "press" /\ ev.code = "Enter" /\ ev.mods = "NONE"

\* C7: Enter without modifiers in Editing mode switches to Navigation mode and
\* leaves exit flag and pending-open flag false and query, filtered list and
\* selection unchanged; only Enter pressed in Navigation mode sets pending-open.
C7_EditingEnterIsNotHandOff ==
    [][ /\ (/\ pc = "read"
            /\ IsSome(last'.event)
            /\ input_mode = "Editing"
            /\ IsEnterNoModifiers(Unwrap(last'.event)))
              => /\ input_mode' = "Normal"
                 /\ ~exit'
                 /\ ~pending_open'
                 /\ UNCHANGED <<input_value, input_cursor, filtered_projects, selected>>
        /\ (~pending_open /\ pending_open')
              => /\ pc = "read"
                 /\ IsSome(last'.event)
                 /\ input_mode = "Normal"
                 /\ Unwrap(last'.event).type = "key"
                 /\ Unwrap(last'.event).kind = "press"
                 /\ Unwrap(last'.event).code = "Enter"
      ]_vars

\* Enter has just ended the editing of a non-empty query
C7_Witness ==
    /\ last.op = "stop_editing"
    /\ last.mode = "Editing"
    /\ IsEnterNoModifiers(LastKey)
    /\ input_mode = "Normal"
    /\ input_value # <<>>
    /\ ~exit
    /\ ~pending_open

IsQuitKey(ev) ==
    /\ ev.type = "key"
    /\ ev.kind = "press"
    /\ (ev.code = "Char" /\ ev.ch = "q") \/ ev.code = "Esc"

\* C8: q or Esc in Navigation mode sets the exit flag with the pending-open flag
\* false, so the loop exits and the hand-off launches no editor.
C8_QuitExitsWithoutLaunch ==
    [][ /\ (/\ pc = "read"
            /\ IsSome(last'.event)
            /\ input_mode = "Normal"
            /\ IsQuitKey(Unwrap(last'.event)))
              => /\ exit'
                 /\ ~pending_open'
                 /\ pc' = "handoff"
                 /\ launched' = <<>>
        /\ (pc = "handoff" /\ ~pending_open)
              => /\ pc' = "done"
                 /\ launched' = <<>>
      ]_vars

\* the run has ended without a launch after q was pressed on a narrowed list
C8_Witness ==
    /\ pc = "done"
    /\ last.op = "no_launch"
    /\ exit
    /\ ~pending_open
    /\ launched = <<>>
    /\ IsSome(selected)
    /\ input_value # <<>>

\* C9: a draw with selection None leaves it None, highlights no row and renders
\* the 'No README' placeholder in the README pane.  (render_readme returns without
\* rendering anything: violated.)
C9_NoneSelectionDrawsPlaceholder ==
    (last.op = "draw" /\ pc = "read" /\ selected = None)
        => /\ screen.highlighted = None
           /\ screen.readme = "No README"

\* the configured roots, expanded
ExpandedRoot(i) == Unwrap(parse_dir(env, user_config.project_dirs[i]))

\* <<i, j>>: entry j of the listing of root i enumerates and has a .git child
GitEntries ==
    UNION { { <<i, j>> : j \in { j \in 1..Len(env.dirs[ExpandedRoot(i)]) :
                                    /\ env.dirs[ExpandedRoot(i)][j].ok
                                    /\ env.dirs[ExpandedRoot(i)][j].git } }
            : i \in { i \in 1..Len(user_config.project_dirs) :
                        ExpandedRoot(i) \in DOMAIN env.dirs } }

ComesBefore(p, q) == p[1] < q[1] \/ (p[1] = q[1] /\ p[2] < q[2])

PositionOf(p) == Cardinality({q \in GitEntries : ComesBefore(q, p)}) + 1

\* C10: get_all_projects returns exactly one Project for each entry one level
\* below a configured root that has a .git child, and nothing else; roots that do
\* not exist contribute nothing without failing the run; the results of the roots
\* are concatenated in configured root order.
C10_DiscoveryIsGitEntries ==
    /\ (last.op = "discover") =>
          /\ Len(projects) = Cardinality(GitEntries)
          /\ \A p \in GitEntries :
                LET e == env.dirs[ExpandedRoot(p[1])][p[2]]
                IN  projects[PositionOf(p)] =
                        [project_name |-> e.name,
                         project_path |-> ExpandedRoot(p[1]) \o <<"/">> \o e.name]
    /\ (last.op = "discover") => pc = "draw"
    /\ (last.op = "discover_panicked") =>
          \E i \in 1..Len(user_config.project_dirs) :
              /\ env.home = None
              /\ user_config.project_dirs[i][1] = "~"

\* discovery has returned with a root that does not exist, entries without .git,
\* and projects from two other roots
C10_Witness ==
    /\ last.op = "discover"
    /\ pc = "draw"
    /\ \E i \in 1..Len(user_config.project_dirs) : ExpandedRoot(i) \notin DOMAIN env.dirs
    /\ \E i \in 1..Len(user_config.project_dirs) :
          /\ ExpandedRoot(i) \in DOMAIN env.dirs
          /\ \E j \in 1..Len(env.dirs[ExpandedRoot(i)]) : ~env.dirs[ExpandedRoot(i)][j].git
    /\ Len(projects) = 2
    /\ projects[1].project_path = <<"/", "r", "/", "a", "b">>

\* C11: filtering is idempotent: for every project list and every query, filtering
\* the filtered list again with the same query returns the filtered list.
C11_FilterIdempotent ==
    pc = "filtered" => filtered_projects = FilterProjects(projects, input_value)

\* a query with an upper-case letter was applied twice to a list it narrows to
\* two or more projects
C11_Witness ==
    /\ pc = "filtered"
    /\ \E i \in 1..Len(input_value) : input_value[i] = "B"
    /\ Len(filtered_projects) >= 2
    /\ Len(filtered_projects) < Len(projects)
    /\ filtered_projects[1] # filtered_projects[2]

\* the configuration file of the run
ConfigFile == env.config_file

\* configuration loading has returned and nothing else has run yet
ConfigJustLoaded == last.op \in {"load_config", "load_config_failed"}

\* C12: configuration loading is decided before discovery and before any draw: a
\* missing file yields the defaults (project_dirs = [~/Projects], editor_command =
\* nvim) and the run continues; an unparseable file yields a fatal error naming the
\* file path, with no draw and no discovery; a parseable file yields its values,
\* with the defaults for absent keys.
C12_ConfigOutcomes ==
    /\ ConfigJustLoaded => (~screen.drawn /\ projects = <<>> /\ last.mode = "Normal")
    /\ (ConfigFile.kind = "missing" /\ pc # "load_config") =>
          /\ user_config = [project_dirs |-> << <<"~", "/", "Projects">> >>,
                            editor_command |-> "nvim"]
          /\ last.op # "load_config_failed"
          /\ (ConfigJustLoaded => pc = "discover")
    /\ ConfigFile.kind = "malformed" =>
          /\ pc \in {"load_config", "failed"}
          /\ last.op \in {"none", "load_config_failed"}
          /\ ~screen.drawn
          /\ projects = <<>>
          /\ pc = "failed" =>
                /\ IsSome(result)
                /\ ~Unwrap(result).ok
                /\ \E i \in 1..Len(Unwrap(result).message) :
                      Unwrap(result).message[i] = "<config_dir>/pl/config.toml"
    /\ (ConfigFile.kind = "parsed" /\ pc # "load_config") =>
          /\ user_config.project_dirs =
                IF ConfigFile.project_dirs = None
                THEN << <<"~", "/", "Projects">> >>
                ELSE ConfigFile.project_dirs[1]
          /\ user_config.editor_command =
                IF ConfigFile.editor_command = None
                THEN "nvim"
                ELSE ConfigFile.editor_command[1]
          /\ last.op # "load_config_failed"
          /\ (ConfigJustLoaded => pc = "discover")

\* the run has aborted on an unparseable configuration file
C12_Witness ==
    /\ ConfigFile.kind = "malformed"
    /\ pc = "failed"
    /\ last.op = "load_config_failed"
    /\ IsSome(result)
    /\ Unwrap(result).kind = "InvalidData"
    /\ ~screen.drawn

\* the string given to parse_dir
DirArgument == user_config.project_dirs[1]

\* the string is ~/rest
IsTildeSlash(d) == Len(d) >= 2 /\ d[1] = "~" /\ d[2] = "/"

\* what follows the ~/ of the string
RestOf(d) == SubSeq(d, 3, Len(d))

\* C13: parse_dir maps the string ~ to the home directory, ~/rest to the home
\* directory joined with rest (a rest that is itself absolute replaces it), and
\* every other string to itself; only the first two look the home directory up,
\* so only they fail when there is none.
C13_ParseDirCases ==
    last.op = "parse_dir" =>
        CASE DirArgument = <<"~">> ->
                IF env.home = None
                THEN pc = "panicked"
                ELSE pc = "parsed" /\ result = Some(env.home[1])
          [] IsTildeSlash(DirArgument) ->
                IF env.home = None
                THEN pc = "panicked"
                ELSE /\ pc = "parsed"
                     /\ result = Some(IF RestOf(DirArgument) # <<>> /\ RestOf(DirArgument)[1] = "/"
                                      THEN RestOf(DirArgument)
                                      ELSE env.home[1] \o <<"/">> \o RestOf(DirArgument))
          [] OTHER -> pc = "parsed" /\ result = Some(DirArgument)

\* parse_dir has returned a ~user string unchanged, with no home directory to find
C13_Witness ==
    /\ last.op = "parse_dir"
    /\ pc = "parsed"
    /\ DirArgument = <<"~", "x">>
    /\ env.home = None
    /\ result = Some(<<"~", "x">>)

\* the step to the next state dispatches an event
DispatchStep == pc = "read" /\ IsSome(last'.event)

\* the event that step dispatches
Dispatched == Unwrap(last'.event)

IsPress(ev) == ev.type = "key" /\ ev.kind = "press"

\* the / key pressed in Navigation mode
SlashInNavigation(mode, ev) ==
    mode = "Normal" /\ IsPress(ev) /\ ev.code = "Char" /\ ev.ch = "/"

\* Esc or Enter pressed without modifiers in Editing mode
EscOrEnterInEditing(mode, ev) ==
    mode = "Editing" /\ IsPress(ev) /\ ev.code \in {"Esc", "Enter"} /\ ev.mods = "NONE"

\* C14: the mode is Editing when the loop starts; it changes only from Navigation
\* to Editing on /, and from Editing to Navigation on Esc or Enter without
\* modifiers; every other event leaves it unchanged, and these three transitions
\* change neither the query, the filtered list, the selection nor the exit flags.
C14_ModeTransitions ==
    [][ /\ (pc = "discover" /\ pc' = "draw") => input_mode' = "Editing"
        /\ DispatchStep =>
              IF SlashInNavigation(input_mode, Dispatched)
              THEN /\ input_mode' = "Editing"
                   /\ UNCHANGED <<input_value, input_cursor, filtered_projects, selected,
                                  exit, pending_open>>
              ELSE IF EscOrEnterInEditing(input_mode, Dispatched)
              THEN /\ input_mode' = "Normal"
                   /\ UNCHANGED <<input_value, input_cursor, filtered_projects, selected,
                                  exit, pending_open>>
              ELSE input_mode' = input_mode
        /\ (pc \in {"draw", "read", "handoff"} /\ ~DispatchStep) => input_mode' = input_mode
      ]_vars

\* / has just switched from Navigation to Editing with a query in the buffer
C14_Witness ==
    /\ last.op = "start_editing"
    /\ last.mode = "Normal"
    /\ input_mode = "Editing"
    /\ input_value # <<>>
    /\ IsSome(selected)

\* the keys that the table of Navigation mode matches
NavigationTableKey(ev) ==
    \/ ev.code = "Char" /\ ev.ch \in {"q", "j", "k", "G", "/"}
    \/ ev.code \in {"Esc", "Down", "Up", "Enter"}

\* C15: a key press that the table of Navigation mode does not match, and in either
\* mode an event that is not a key press, changes none of mode, query, filtered
\* list, selection, exit flag and pending-open flag.
C15_UnmatchedIsNoOp ==
    [][ (/\ DispatchStep
         /\ \/ input_mode = "Normal" /\ IsPress(Dispatched) /\ ~NavigationTableKey(Dispatched)
            \/ ~IsPress(Dispatched))
            => UNCHANGED <<input_mode, input_value, input_cursor, filtered_projects,
                           selected, exit, pending_open>>
      ]_vars

\* Backspace has just been ignored in Navigation mode with a query in the buffer
C15_Witness ==
    /\ KeyPressStep
    /\ last.mode = "Normal"
    /\ LastKey.code = "Backspace"
    /\ last.op = "ignored"
    /\ input_mode = "Normal"
    /\ input_value # <<>>
    /\ input_cursor = Len(input_value)
    /\ ~exit

\* C16: in Editing mode Ctrl-N and unmodified Down perform next, Ctrl-P and
\* unmodified Up perform previous (the operations of Navigation mode: one row on,
\* one row back, without wrapping), and each leaves the mode at Editing and the
\* query and the filtered list unchanged: no filter recomputation, no reset of the
\* selection.
C16_NavigationWhileEditing ==
    [][ (DispatchStep /\ input_mode = "Editing" /\ IsPress(Dispatched)) =>
            /\ IsNextKey("Editing", Dispatched) =>
                  /\ selected' = IF selected = None THEN Some(0)
                                 ELSE IF selected[1] >= UsizeMax THEN Some(UsizeMax)
                                 ELSE Some(selected[1] + 1)
                  /\ input_mode' = "Editing"
                  /\ UNCHANGED <<input_value, input_cursor, filtered_projects>>
            /\ IsPreviousKey("Editing", Dispatched) =>
                  /\ selected' = IF selected = None THEN Some(UsizeMax)
                                 ELSE IF selected[1] = 0 THEN Some(0)
                                 ELSE Some(selected[1] - 1)
                  /\ input_mode' = "Editing"
                  /\ UNCHANGED <<input_value, input_cursor, filtered_projects>>
      ]_vars

\* Down has just moved the selection off the first row while a query is being edited
C16_Witness ==
    /\ KeyPressStep
    /\ last.mode = "Editing"
    /\ LastKey.code = "Down"
    /\ LastKey.mods = "NONE"
    /\ input_mode = "Editing"
    /\ input_value # <<>>
    /\ NRows >= 2
    /\ last.before = Some(0)
    /\ selected = Some(1)

\* C17: the loop draws and dispatches only while the exit flag is false and stops
\* at the first iteration after it is set; the editor is launched at most once,
\* only after the loop has exited, and exactly when the pending-open flag is set
\* and the selection is Some; otherwise the run ends with no launch, also after
\* Enter in Navigation mode on an empty filtered list.
C17_LoopExitAndHandOff ==
    /\ pc \in {"draw", "read"} => ~exit
    /\ exit => pc \in {"handoff", "done"}
    /\ (IsSome(last.event) /\ exit) => pc = "handoff"
    /\ Len(launched) <= 1
    /\ launched # <<>> => (pc = "done" /\ exit /\ pending_open /\ IsSome(selected))
    /\ pc = "done" => (launched # <<>> <=> (pending_open /\ IsSome(selected)))
    /\ (pc = "done" /\ filtered_projects = <<>>) => launched = <<>>
    /\ pc \in {"failed", "panicked"} => launched = <<>>

\* the run has ended without a launch after Enter in Navigation mode on a list
\* that a query had emptied
C17_Witness ==
    /\ pc = "done"
    /\ exit
    /\ pending_open
    /\ input_mode = "Normal"
    /\ input_value # <<>>
    /\ projects # <<>>
    /\ filtered_projects = <<>>
    /\ selected = None
    /\ launched = <<>>

\* the six keys that the table of Editing mode matches
EditingTableKey(ev) ==
    \/ ev.code \in {"Esc", "Enter", "Down", "Up"} /\ ev.mods = "NONE"
    \/ ev.code = "Char" /\ ev.ch \in {"n", "p"} /\ ev.mods = "CONTROL"

\* the keys that the text buffer takes without changing its text
LeavesTextUnchanged(ev) ==
    \/ ev.code \in {"Left", "Right", "Home", "End"} /\ ev.mods = "NONE"
    \/ ev.code \in {"Enter", "Down", "Up"} /\ ev.mods # "NONE"

\* C18: in Editing mode every key press other than unmodified Esc, unmodified
\* Enter, Ctrl-N, unmodified Down, Ctrl-P and unmodified Up goes to the text buffer
\* and is followed by a filter recomputation: the filtered list is the filter of
\* the new query and the selection becomes the first row, or None on an empty
\* list, also when the key leaves the text of the query unchanged.
C18_OtherKeysRefilter ==
    [][ (/\ DispatchStep
         /\ input_mode = "Editing"
         /\ IsPress(Dispatched)
         /\ ~EditingTableKey(Dispatched))
            => /\ last'.op = "filter_results"
               /\ LET buf == InputHandle(input_value, input_cursor,
                                         to_input_request(Dispatched), Dispatched.ch)
                  IN  input_value' = buf.value /\ input_cursor' = buf.cursor
               /\ LeavesTextUnchanged(Dispatched) => input_value' = input_value
               /\ filtered_projects' = FilterProjects(projects, input_value')
               /\ selected' = IF filtered_projects' = <<>> THEN None ELSE Some(0)
               /\ input_mode' = "Editing"
               /\ UNCHANGED <<exit, pending_open>>
      ]_vars

\* Ctrl-Down, which the text buffer ignores, has just reset the selection from the
\* second row to the first while a query is being edited
C18_Witness ==
    /\ KeyPressStep
    /\ last.mode = "Editing"
    /\ last.op = "filter_results"
    /\ LastKey.code = "Down"
    /\ LastKey.mods = "CONTROL"
    /\ to_input_request(LastKey) = "None"
    /\ input_value # <<>>
    /\ NRows >= 2
    /\ last.before = Some(1)
    /\ selected = Some(0)

\* C19: every time render_readme runs, after the list was rendered in the same
\* draw, the selection is None or Some(i) with i < len(filtered_projects), so the
\* lookup with unwrap on filtered_projects does not panic.
C19_ReadmeLookupNeverPanics ==
    last.op = "draw" =>
        /\ selected = None \/ Unwrap(selected) < Len(filtered_projects)
        /\ pc = "read"

\* C20: at the hand-off after the loop, whenever the pending-open flag is set and
\* the selection is Some(i), i < len(projects) for the full project list, so the
\* lookup projects.get(i).unwrap() does not panic, whatever keys led to the exit.
C20_HandOffLookupNeverPanics ==
    /\ (pc = "handoff" /\ pending_open /\ IsSome(selected))
            => Unwrap(selected) < Len(projects)
    /\ last.op # "handoff_panicked"

\* the loop has exited on Enter with the last row of a narrowed list selected
C20_Witness ==
    /\ pc = "handoff"
    /\ pending_open
    /\ input_value # <<>>
    /\ NRows >= 2
    /\ NRows < Len(projects)
    /\ selected = Some(NRows - 1)
====
